---- MODULE Spec2Model ----
(***************************************************************************)
(* Model of steamgrid's startApplication (src/steamgrid.go): for each user *)
(* profile the existing images are loaded, a staging directory             *)
(* '<gridDir> new' is filled game by game (download if missing, overlay,   *)
(* backup, final write) and then swapped for the live grid directory by    *)
(* os.RemoveAll followed by os.Rename.  The filesystem, the image provider *)
(* and the helper functions LoadExisting, DownloadImage, ApplyOverlay and  *)
(* BackupGame are part of the state machine; every failure the code tests  *)
(* for is an outcome the environment may choose.                           *)
(***************************************************************************)
EXTENDS Integers, Sequences, FiniteSets, TLC

(* ---- bounds ---- *)
NUsers == 2
NGames == 2
MaxRuns == 2
\* How many operations of the filesystem or the network may fail in a behaviour.
MaxFaults == 2

(* ---- the library and the images ---- *)
Users == 1..NUsers
GameIds == 1..NGames

\* The games GetGames reports for a profile: the last profile owns every
\* game of the library, the first profile only the first one, and a profile
\* in between has no games at all.
NumGames(u) == IF u = NUsers THEN NGames ELSE IF u = 1 THEN 1 ELSE 0
GamesOf(u) == 1..NumGames(u)

\* Game.Category as GetGames reports it: odd ids are "indie", even ids "other".
Category(g) == IF g % 2 = 1 THEN "indie" ELSE "other"

\* The mapping LoadOverlays returned: only "indie" has an overlay asset.
overlays == {"indie"}

\* Encoded images.  1: a JPEG, 2: a PNG whose body is corrupt, 3: bytes of
\* no recognised format.  0 stands for nil / no file.
Images == {1, 2, 3}
NoImage == 0

\* Offset that turns a clean image into the composited one.
OverlayMark == 10

\* File extension inferred from the encoding of the bytes.
ImageExtOf(b) ==
    CASE b % OverlayMark = 1 -> ".jpg"
      [] b % OverlayMark = 2 -> ".png"
      [] OTHER -> ""

\* Whether image.Decode succeeds on the bytes.
Decodable(b) == b % OverlayMark = 1

\* Alpha-compositing the overlay on a decodable image, re-encoded in the
\* same format: a buffer different from the clean one.
Composite(b) == b + OverlayMark

Exts == {"", ".jpg", ".png"}
SupportedExts == {".jpg", ".png"}
Kinds == {"orig", "final"}

\* File names inside a grid directory: originals/<id><ext> and <id><ext>.
Names == Kinds \X GameIds \X Exts

NoFiles == [n \in Names |-> NoImage]
\* A directory that does not exist, and an existing empty one.
NoDir == [exists |-> FALSE, files |-> NoFiles]
EmptyDir == [exists |-> TRUE, files |-> NoFiles]
\* A grid directory this tool did not create: game 1 published twice, with
\* different extensions, and no backup.
LegacyDir == [exists |-> TRUE,
              files |-> [NoFiles EXCEPT ![<<"final", 1, ".jpg">>] = 1,
                                        ![<<"final", 1, ".png">>] = 2]]

\* The per-game override files of the 'games' folder beside the executable.
NoOverrides == [g \in GameIds |-> NoImage]

\* The installations the program is started on: a new one, and one with a
\* legacy grid directory for the first profile and an override for the last
\* game of the library.
Installations ==
    {[grid |-> [u \in Users |-> EmptyDir], overrides |-> NoOverrides],
     [grid |-> [u \in Users |-> IF u = 1 THEN LegacyDir ELSE EmptyDir],
      overrides |-> [NoOverrides EXCEPT ![NGames] = 1]]}

\* A Game record as GetGames creates it.
NewGame == [ImageSource |-> "", CleanImageBytes |-> NoImage,
            OverlayImageBytes |-> NoImage, ImageExt |-> ""]

VARIABLES
    run,              \* number of the current execution of the program
    pc,               \* position inside startApplication
    user,             \* index of the profile of the 'range users' loop
    i,                \* index of the game of the 'range games' loop
    fatal,            \* the error errorAndExit was called with, "none" if none
    games,            \* the Game records of each profile
    gridDir,          \* the live grid directory of each profile
    newGridDir,       \* the staging directory '<gridDir> new' of each profile
    overrides,        \* the override folder
    providerUp,       \* whether the image provider answers in this execution
    faults,           \* failed filesystem and network operations so far
    nOverlaysApplied,
    nDownloaded,
    notFounds,
    searchedGames,
    failedGames,
    errorMessages,
    writeFailures,    \* games the "Failed to write image" line was printed for
    downloadCalls,    \* number of DownloadImage calls per game in this run
    prevGridDir,      \* the live directories as the previous execution left them
    prevWriteFailures,\* writeFailures at the end of the previous execution
    prevPc            \* where the previous execution ended ("none" in the first)

vars == <<run, pc, user, i, fatal, games, gridDir, newGridDir, overrides,
          providerUp, faults,
          nOverlaysApplied, nDownloaded, notFounds, searchedGames, failedGames,
          errorMessages, writeFailures, downloadCalls, prevGridDir,
          prevWriteFailures, prevPc>>

summaryVars == <<nOverlaysApplied, nDownloaded, notFounds, searchedGames,
                 failedGames, errorMessages>>
fsVars == <<gridDir, newGridDir>>
envVars == <<overrides, providerUp>>
prevVars == <<prevGridDir, prevWriteFailures, prevPc>>

\* The Game records before LoadExisting and the counters of DownloadImage calls.
NoGames == [u \in Users |-> [g \in GameIds |-> NewGame]]
NoCalls == [u \in Users |-> [g \in GameIds |-> 0]]

\* The state of a fresh execution: lines 56-61 and the first loop iteration.
FreshRun ==
    /\ pc = "load"
    /\ user = 1
    /\ i = 0
    /\ fatal = "none"
    /\ games = NoGames
    /\ nOverlaysApplied = 0
    /\ nDownloaded = 0
    /\ notFounds = <<>>
    /\ searchedGames = <<>>
    /\ failedGames = <<>>
    /\ errorMessages = <<>>
    /\ writeFailures = {}
    /\ downloadCalls = NoCalls

Init ==
    /\ run = 1
    /\ FreshRun
    /\ \E inst \in Installations :
         /\ gridDir = inst.grid
         /\ overrides = inst.overrides
    /\ newGridDir = [u \in Users |-> NoDir]
    /\ providerUp \in BOOLEAN
    /\ faults = 0
    /\ prevGridDir = gridDir
    /\ prevWriteFailures = {}
    /\ prevPc = "none"

(* ---- helpers of the repository whose source is not in steamgrid.go ---- *)

\* LoadExisting: the images it may pick for game g, first match wins:
\* override file, else a backup in originals/, else the published image.
BackupsOf(dir, g) ==
    {dir.files[<<"orig", g, e>>] : e \in SupportedExts} \ {NoImage}
PublishedOf(dir, g) ==
    {dir.files[<<"final", g, e>>] : e \in SupportedExts} \ {NoImage}
ExistingCandidates(ov, dir, g) ==
    IF ov[g] # NoImage THEN {ov[g]}
    ELSE IF BackupsOf(dir, g) # {} THEN BackupsOf(dir, g)
    ELSE PublishedOf(dir, g)

\* LoadExisting's effect on a game once it picked image b (NoImage: none found).
LoadExisting(game, b) ==
    IF b = NoImage THEN game
    ELSE [game EXCEPT !.ImageSource = "loaded", !.CleanImageBytes = b,
                      !.ImageExt = ImageExtOf(b)]

\* DownloadImage: what it may return.  A transport error; no image on either
\* path; the catalog's image (a JPEG, or bytes of no recognised format); the
\* first result of the web search (here a PNG that does not decode).
TransportError == [err |-> TRUE, fromSearch |-> FALSE, source |-> "", img |-> NoImage]
DownloadOutcomes ==
    {TransportError,
     [err |-> FALSE, fromSearch |-> FALSE, source |-> "", img |-> NoImage],
     [err |-> FALSE, fromSearch |-> FALSE, source |-> "official", img |-> 1],
     [err |-> FALSE, fromSearch |-> FALSE, source |-> "official", img |-> 3],
     [err |-> FALSE, fromSearch |-> TRUE, source |-> "search", img |-> 2]}

DownloadImage(game, o) ==
    IF o.source = "" THEN game
    ELSE [game EXCEPT !.ImageSource = o.source, !.CleanImageBytes = o.img,
                      !.ImageExt = ImageExtOf(o.img)]

\* ApplyOverlay: the error it returns ("" for nil) and the game after it.
ApplyOverlayErr(game, g) ==
    IF Category(g) \notin overlays THEN ""
    ELSE IF Decodable(game.CleanImageBytes) THEN ""
    ELSE "decode"
ApplyOverlay(game, g) ==
    IF Category(g) \in overlays /\ Decodable(game.CleanImageBytes)
    THEN [game EXCEPT !.OverlayImageBytes = Composite(game.CleanImageBytes)]
    ELSE game

\* BackupGame: the file it writes into originals/ of the staging directory.
BackupGame(dir, game, g) ==
    [dir EXCEPT !.files[<<"orig", g, game.ImageExt>>] = game.CleanImageBytes]


\* os.MkdirAll(newGridDir/originals): creates the directory when it is
\* missing and leaves an existing one, with its files, as it is.
MkdirAll(dir) == [dir EXCEPT !.exists = TRUE]

\* ioutil.WriteFile(newGridDir/<id><ext>, bytes).
WriteFile(dir, g, ext, bytes) ==
    [dir EXCEPT !.files[<<"final", g, ext>>] = bytes]

\* What a failed os.RemoveAll may leave behind: the directory still exists,
\* with all its files or with only those of originals/.
PartlyRemoved(dir) ==
    {[exists |-> TRUE,
      files |-> [n \in Names |-> IF n[1] \in keep THEN dir.files[n] ELSE NoImage]] :
        keep \in {Kinds, {"orig"}}}

(* ---- startApplication ---- *)

\* Mutant of errorAndExit: the message is printed and the process goes on.
errorAndContinue(e) ==
    /\ fatal' = e
    /\ pc' = pc

\* errorAndExit(err): the message is printed and the process exits.
errorAndExit(e) ==
    /\ fatal' = e
    /\ pc' = "exit"

\* An operation of the environment fails / no operation fails in this step.
Fault ==
    /\ faults < MaxFaults
    /\ faults' = faults + 1
NoFault == faults' = faults

\* Lines 64-74: GetGames and the LoadExisting loop of the current profile.
LoadGames ==
    /\ pc = "load"
    /\ \E pick \in [GameIds -> Images \cup {NoImage}] :
         /\ \A g \in GameIds :
              LET c == IF g \in GamesOf(user)
                       THEN ExistingCandidates(overrides, gridDir[user], g)
                       ELSE {}
              IN  IF c = {} THEN pick[g] = NoImage ELSE pick[g] \in c
         /\ games' = [games EXCEPT ![user] =
                         [g \in GameIds |-> LoadExisting(NewGame, pick[g])]]
    /\ pc' = "mkdir"
    /\ UNCHANGED <<run, user, i, fatal, fsVars, envVars, faults, summaryVars,
                   writeFailures, downloadCalls, prevVars>>

\* Mutant of LoopNext: the loop is left after the first game it handled.
LoopNextEarly ==
    /\ i' = i
    /\ pc' = "remove"

\* The head of the game loop, reached on entry and at the end of the loop
\* body: the next game, or the code after the loop.
LoopNext ==
    IF i < NumGames(user)
    THEN /\ i' = i + 1
         /\ pc' = "acquire"
    ELSE /\ i' = i
         /\ pc' = "remove"

\* Lines 79-87: create the staging directory, then enter the game loop.
CreateNewGrid ==
    /\ pc = "mkdir"
    /\ \/ /\ NoFault
          /\ newGridDir' = [newGridDir EXCEPT ![user] = MkdirAll(@)]
          /\ LoopNext
          /\ UNCHANGED fatal
       \/ /\ Fault
          /\ errorAndExit("mkdir")
          /\ UNCHANGED <<newGridDir, i>>
    /\ UNCHANGED <<run, user, games, gridDir, envVars, summaryVars,
                   writeFailures, downloadCalls, prevVars>>

\* Mutant of AfterDownload: fromSearch is ignored.
AfterDownloadUnlisted(game, fromSearch) ==
    IF game.ImageSource = ""
    THEN /\ notFounds' = Append(notFounds, <<user, i>>)
         /\ LoopNext
         /\ UNCHANGED <<nDownloaded, searchedGames>>
    ELSE /\ nDownloaded' = nDownloaded + 1
         /\ pc' = "overlay"
         /\ UNCHANGED <<i, notFounds, searchedGames>>

\* Mutant of AfterDownload: the 'continue' of a game without image is missing.
AfterDownloadNoSkip(game, fromSearch) ==
    IF game.ImageSource = ""
    THEN /\ notFounds' = Append(notFounds, <<user, i>>)
         /\ pc' = "overlay"
         /\ UNCHANGED <<i, nDownloaded, searchedGames>>
    ELSE /\ nDownloaded' = nDownloaded + 1
         /\ searchedGames' = IF fromSearch
                             THEN Append(searchedGames, <<user, i>>)
                             ELSE searchedGames
         /\ pc' = "overlay"
         /\ UNCHANGED <<i, notFounds>>

\* Mutant of AfterDownload: nDownloaded++ comes before the test of line 107.
AfterDownloadCounted(game, fromSearch) ==
    /\ nDownloaded' = nDownloaded + 1
    /\ IF game.ImageSource = ""
       THEN /\ notFounds' = Append(notFounds, <<user, i>>)
            /\ LoopNext
            /\ UNCHANGED searchedGames
       ELSE /\ searchedGames' = IF fromSearch
                                THEN Append(searchedGames, <<user, i>>)
                                ELSE searchedGames
            /\ pc' = "overlay"
            /\ UNCHANGED <<i, notFounds>>

\* Lines 107-118: the bookkeeping after DownloadImage returned without error.
AfterDownload(game, fromSearch) ==
    IF game.ImageSource = ""
    THEN /\ notFounds' = Append(notFounds, <<user, i>>)
         /\ LoopNext
         /\ UNCHANGED <<nDownloaded, searchedGames>>
    ELSE /\ nDownloaded' = nDownloaded + 1
         /\ searchedGames' = IF fromSearch
                             THEN Append(searchedGames, <<user, i>>)
                             ELSE searchedGames
         /\ pc' = "overlay"
         /\ UNCHANGED <<i, notFounds>>

\* Mutant of DownloadFailed: the download of the game is tried again.
DownloadRetried ==
    /\ pc' = "acquire"
    /\ UNCHANGED <<i, fatal, games, nDownloaded, notFounds, searchedGames>>

\* Lines 104-106: a DownloadImage error ends the run.
DownloadFailed ==
    /\ errorAndExit("download")
    /\ UNCHANGED <<i, games, nDownloaded, notFounds, searchedGames>>

\* Mutant of Acquire: the test of line 102 is missing, every game is downloaded.
AcquireAlways ==
    /\ pc = "acquire"
    /\ downloadCalls' = [downloadCalls EXCEPT ![user][i] = @ + 1]
    /\ \E o \in DownloadOutcomes :
         IF o.err
         THEN /\ IF providerUp THEN Fault ELSE NoFault
              /\ DownloadFailed
         ELSE /\ providerUp
              /\ NoFault
              /\ games' = [games EXCEPT ![user][i] = DownloadImage(@, o)]
              /\ UNCHANGED fatal
              /\ AfterDownload(DownloadImage(games[user][i], o), o.fromSearch)
    /\ UNCHANGED <<run, user, fsVars, envVars, nOverlaysApplied, failedGames,
                   errorMessages, writeFailures, prevVars>>

\* Lines 102-119: download the image if LoadExisting found none.
Acquire ==
    /\ pc = "acquire"
    /\ \/ /\ games[user][i].ImageSource # ""
          /\ pc' = "overlay"
          /\ NoFault
          /\ UNCHANGED <<i, fatal, games, nDownloaded, notFounds,
                         searchedGames, downloadCalls>>
       \/ /\ games[user][i].ImageSource = ""
          /\ downloadCalls' = [downloadCalls EXCEPT ![user][i] = @ + 1]
          /\ \E o \in DownloadOutcomes :
               IF o.err
               THEN /\ IF providerUp THEN Fault ELSE NoFault
                    /\ DownloadFailed
               ELSE /\ providerUp
                    /\ NoFault
                    /\ games' = [games EXCEPT ![user][i] = DownloadImage(@, o)]
                    /\ UNCHANGED fatal
                    /\ AfterDownload(DownloadImage(games[user][i], o), o.fromSearch)
    /\ UNCHANGED <<run, user, fsVars, envVars, nOverlaysApplied, failedGames,
                   errorMessages, writeFailures, prevVars>>

\* Mutant of OverlayFallback: OverlayImageBytes is left as ApplyOverlay left it.
OverlayFallbackNone(game) == game

\* Lines 131-135: the clean image is published when no overlay was applied.
OverlayFallback(game) ==
    IF game.OverlayImageBytes # NoImage THEN game
    ELSE [game EXCEPT !.OverlayImageBytes = game.CleanImageBytes]

\* Lines 131-132: an applied overlay is counted.
CountOverlay(game, n) ==
    IF game.OverlayImageBytes # NoImage THEN n + 1 ELSE n

\* Mutant of Overlay: an ApplyOverlay error is printed and not recorded.
OverlayUnrecorded ==
    /\ pc = "overlay"
    /\ LET game == ApplyOverlay(games[user][i], i)
       IN  /\ nOverlaysApplied' = CountOverlay(game, nOverlaysApplied)
           /\ games' = [games EXCEPT ![user][i] = OverlayFallback(game)]
    /\ pc' = "backup"
    /\ UNCHANGED <<run, user, i, fatal, fsVars, envVars, faults, nDownloaded,
                   notFounds, searchedGames, failedGames, errorMessages,
                   writeFailures, downloadCalls, prevVars>>

\* Mutant of Overlay: line 129 is missing, the message is not recorded.
OverlayUnpairedMessage ==
    /\ pc = "overlay"
    /\ LET e == ApplyOverlayErr(games[user][i], i)
           game == ApplyOverlay(games[user][i], i)
       IN  /\ failedGames' = IF e # "" THEN Append(failedGames, <<user, i>>)
                             ELSE failedGames
           /\ nOverlaysApplied' = CountOverlay(game, nOverlaysApplied)
           /\ games' = [games EXCEPT ![user][i] = OverlayFallback(game)]
    /\ pc' = "backup"
    /\ UNCHANGED <<run, user, i, fatal, fsVars, envVars, faults, nDownloaded,
                   notFounds, searchedGames, errorMessages, writeFailures,
                   downloadCalls, prevVars>>

\* Lines 125-135: apply the overlay of the game's category.
Overlay ==
    /\ pc = "overlay"
    /\ LET e == ApplyOverlayErr(games[user][i], i)
           game == ApplyOverlay(games[user][i], i)
       IN  /\ IF e # ""
              THEN /\ failedGames' = Append(failedGames, <<user, i>>)
                   /\ errorMessages' =
                        Append(errorMessages, <<e, game.CleanImageBytes>>)
              ELSE UNCHANGED <<failedGames, errorMessages>>
           /\ nOverlaysApplied' = CountOverlay(game, nOverlaysApplied)
           /\ games' = [games EXCEPT ![user][i] = OverlayFallback(game)]
    /\ pc' = "backup"
    /\ UNCHANGED <<run, user, i, fatal, fsVars, envVars, faults, nDownloaded,
                   notFounds, searchedGames, writeFailures, downloadCalls,
                   prevVars>>

\* Mutant of Backup: the call of BackupGame is left out.
BackupSkipped ==
    /\ pc = "backup"
    /\ pc' = "publish"
    /\ UNCHANGED <<run, user, i, fatal, games, fsVars, envVars, faults,
                   summaryVars, writeFailures, downloadCalls, prevVars>>

\* Mutant of Backup: the error of BackupGame is ignored.
BackupIgnoringError ==
    /\ pc = "backup"
    /\ \/ /\ NoFault
          /\ newGridDir' = [newGridDir EXCEPT ![user] =
                               BackupGame(@, games[user][i], i)]
       \/ /\ Fault
          /\ UNCHANGED newGridDir
    /\ pc' = "publish"
    /\ UNCHANGED <<run, user, i, fatal, games, gridDir, envVars, summaryVars,
                   writeFailures, downloadCalls, prevVars>>

\* Mutant of Backup: a failed BackupGame removes the staging directory.
BackupCleaning ==
    /\ pc = "backup"
    /\ \/ /\ NoFault
          /\ newGridDir' = [newGridDir EXCEPT ![user] =
                               BackupGame(@, games[user][i], i)]
          /\ pc' = "publish"
          /\ UNCHANGED fatal
       \/ /\ Fault
          /\ errorAndExit("backup")
          /\ newGridDir' = [newGridDir EXCEPT ![user] = NoDir]
    /\ UNCHANGED <<run, user, i, games, gridDir, envVars, summaryVars,
                   writeFailures, downloadCalls, prevVars>>

\* Lines 140-143: back the clean image up into the staging directory.
Backup ==
    /\ pc = "backup"
    /\ \/ /\ NoFault
          /\ newGridDir' = [newGridDir EXCEPT ![user] =
                               BackupGame(@, games[user][i], i)]
          /\ pc' = "publish"
          /\ UNCHANGED fatal
       \/ /\ Fault
          /\ errorAndExit("backup")
          /\ UNCHANGED newGridDir
    /\ UNCHANGED <<run, user, i, games, gridDir, envVars, summaryVars,
                   writeFailures, downloadCalls, prevVars>>

\* Lines 144-151: check the extension, write the final image.
Publish ==
    /\ pc = "publish"
    /\ LET game == games[user][i]
       IN  IF game.ImageExt = ""
           THEN /\ errorAndExit("format")
                /\ NoFault
                /\ UNCHANGED <<i, newGridDir, writeFailures>>
           ELSE /\ \/ /\ NoFault
                      /\ newGridDir' = [newGridDir EXCEPT ![user] =
                            WriteFile(@, i, game.ImageExt, game.OverlayImageBytes)]
                      /\ UNCHANGED writeFailures
                   \/ /\ Fault
                      /\ writeFailures' = writeFailures \cup {<<user, i>>}
                      /\ UNCHANGED newGridDir
                /\ LoopNext
                /\ UNCHANGED fatal
    /\ UNCHANGED <<run, user, games, gridDir, envVars, summaryVars,
                   downloadCalls, prevVars>>

\* Lines 154-159: os.RemoveAll(gridDir).
RemoveOldGrid ==
    /\ pc = "remove"
    /\ \/ /\ NoFault
          /\ gridDir' = [gridDir EXCEPT ![user] = NoDir]
          /\ pc' = "rename"
          /\ UNCHANGED fatal
       \/ /\ Fault
          /\ \E d \in PartlyRemoved(gridDir[user]) :
               gridDir' = [gridDir EXCEPT ![user] = d]
          /\ errorAndExit("remove")
    /\ UNCHANGED <<run, user, i, games, newGridDir, envVars, summaryVars,
                   writeFailures, downloadCalls, prevVars>>

\* Lines 63 and 167: the next profile, or the code after the loop.
NextUser ==
    IF user < NUsers
    THEN /\ user' = user + 1
         /\ i' = 0
         /\ pc' = "load"
    ELSE /\ user' = user
         /\ i' = i
         /\ pc' = "summary"

\* Mutant of MoveNewGrid: a failed rename cleans the staging directory up.
MoveNewGridLosing ==
    /\ pc = "rename"
    /\ \/ /\ NoFault
          /\ gridDir' = [gridDir EXCEPT ![user] = newGridDir[user]]
          /\ newGridDir' = [newGridDir EXCEPT ![user] = NoDir]
          /\ NextUser
          /\ UNCHANGED fatal
       \/ /\ Fault
          /\ errorAndExit("rename")
          /\ newGridDir' = [newGridDir EXCEPT ![user] = NoDir]
          /\ UNCHANGED <<user, i, gridDir>>
    /\ UNCHANGED <<run, games, envVars, summaryVars, writeFailures,
                   downloadCalls, prevVars>>

\* Lines 161-167: os.Rename(newGridDir, gridDir), then the next profile.
MoveNewGrid ==
    /\ pc = "rename"
    /\ \/ /\ NoFault
          /\ gridDir' = [gridDir EXCEPT ![user] = newGridDir[user]]
          /\ newGridDir' = [newGridDir EXCEPT ![user] = NoDir]
          /\ NextUser
          /\ UNCHANGED fatal
       \/ /\ Fault
          /\ errorAndExit("rename")
          /\ UNCHANGED <<user, i, fsVars>>
    /\ UNCHANGED <<run, games, envVars, summaryVars, writeFailures,
                   downloadCalls, prevVars>>

\* Lines 169-199: print the summary and return.
PrintSummary ==
    /\ pc = "summary"
    /\ pc' = "done"
    /\ UNCHANGED <<run, user, i, fatal, games, fsVars, envVars, faults,
                   summaryVars, writeFailures, downloadCalls, prevVars>>

\* The program is started again on the files the last execution left, with
\* the image provider unavailable.
Restart ==
    /\ pc \in {"done", "exit"}
    /\ run < MaxRuns
    /\ run' = run + 1
    /\ pc' = "load"
    /\ user' = 1
    /\ i' = 0
    /\ fatal' = "none"
    /\ games' = NoGames
    /\ nOverlaysApplied' = 0
    /\ nDownloaded' = 0
    /\ notFounds' = <<>>
    /\ searchedGames' = <<>>
    /\ failedGames' = <<>>
    /\ errorMessages' = <<>>
    /\ writeFailures' = {}
    /\ downloadCalls' = NoCalls
    /\ providerUp' = FALSE
    /\ prevGridDir' = gridDir
    /\ prevWriteFailures' = writeFailures
    /\ prevPc' = pc
    /\ UNCHANGED <<fsVars, overrides, faults>>

Next ==
    \/ LoadGames
    \/ CreateNewGrid
    \/ Acquire
    \/ Overlay
    \/ Backup
    \/ Publish
    \/ RemoveOldGrid
    \/ MoveNewGrid
    \/ PrintSummary
    \/ Restart

Spec == Init /\ [][Next]_vars

TypeOK ==
    /\ run \in 1..MaxRuns
    /\ pc \in {"load", "mkdir", "acquire", "overlay", "backup", "publish",
               "remove", "rename", "summary", "done", "exit"}
    /\ user \in Users
    /\ i \in 0..NGames
    /\ faults \in 0..MaxFaults
    /\ nDownloaded \in Nat
    /\ nOverlaysApplied \in Nat


(***************************************************************************)
(* Vocabulary of the properties.                                           *)
(***************************************************************************)

Range(q) == {q[k] : k \in DOMAIN q}
Occurrences(q, x) == Cardinality({k \in DOMAIN q : q[k] = x})

\* The code after the game loop of the current profile has been reached.
AfterLoop ==
    \/ pc \in {"remove", "rename", "summary", "done"}
    \/ pc = "exit" /\ fatal \in {"remove", "rename"}

\* The loop body of game g of profile u has run to its end in this execution.
Handled(u, g) ==
    \/ u < user
    \/ u = user /\ (g < i \/ (g = i /\ AfterLoop))

\* Game g of profile u has passed the overlay stage in this execution.
PastOverlay(u, g) ==
    /\ games[u][g].ImageSource # ""
    /\ \/ Handled(u, g)
       \/ /\ u = user
          /\ g = i
          /\ pc \in {"backup", "publish"} \/ fatal \in {"backup", "format"}

\* The staging directory of profile u has been renamed into place.
Swapped(u) ==
    \/ u < user
    \/ u = user /\ pc \in {"summary", "done"}

\* The directory that holds what this execution staged for profile u.
StagedDir(u) == IF Swapped(u) THEN gridDir[u] ELSE newGridDir[u]

\* The staging directory holds the backup of every game of the profile that
\* has an image, and the final image of each whose write did not fail.
StagingComplete(u) ==
    /\ newGridDir[u].exists
    /\ \A g \in GameIds :
         LET game == games[u][g]
         IN  game.ImageSource # "" =>
               /\ newGridDir[u].files[<<"orig", g, game.ImageExt>>] =
                    game.CleanImageBytes
               /\ <<u, g>> \notin writeFailures =>
                    newGridDir[u].files[<<"final", g, game.ImageExt>>] =
                      game.OverlayImageBytes

\* The loop body of game g has done everything it does for the game: the
\* game was skipped as not found, or backed up and its final write attempted.
Processed(u, g) ==
    \/ <<u, g>> \in Range(notFounds)
    \/ /\ games[u][g].ImageSource # ""
       /\ newGridDir[u].files[<<"orig", g, games[u][g].ImageExt>>] =
            games[u][g].CleanImageBytes
       /\ \/ <<u, g>> \in writeFailures
          \/ newGridDir[u].files[<<"final", g, games[u][g].ImageExt>>] =
               games[u][g].OverlayImageBytes

(***************************************************************************)
(* C1: no partial corruption.                                              *)
(***************************************************************************)

\* C1 as stated: when the directory swap fails (RemoveAll or Rename returns
\* an error) the live grid directory of the profile is still what it was
\* when the execution started.
C1_LiveIntactAfterFailedSwap ==
    fatal \in {"remove", "rename"} => gridDir[user] = prevGridDir[user]

\* C1 amended: the live directory of a profile is untouched until its
\* RemoveAll; from the removal on (rename pending, or the swap failed) the
\* live directory may be gone or partly removed, and then the staging
\* directory still exists and holds every backup and every written image of
\* the profile.
C1_StagingSurvivesFailedSwap ==
    \A u \in Users :
      ~Swapped(u) =>
        \/ gridDir[u] = prevGridDir[u]
        \/ /\ u = user
           /\ pc = "rename" \/ fatal \in {"remove", "rename"}
           /\ StagingComplete(u)

\* The rename failed after the live directory was removed; the staging
\* directory holds a game's files.
C1_Witness ==
    /\ fatal = "rename"
    /\ prevGridDir[user].exists
    /\ ~gridDir[user].exists
    /\ \E g \in GameIds : games[user][g].ImageSource # ""

(***************************************************************************)
(* C2: idempotence.                                                        *)
(***************************************************************************)

\* C2 as stated: an execution that follows a completed one, with the image
\* provider unavailable, is not ended by DownloadImage and republishes every
\* profile's grid directory as the first execution left it.
C2_SecondRunCompletesIdentical ==
    (prevPc = "done" /\ ~providerUp) =>
        /\ fatal # "download"
        /\ \A u \in Users : Swapped(u) => gridDir[u] = prevGridDir[u]

\* C2 amended: an execution that follows a completed one, with the image
\* provider unavailable, is ended by DownloadImage only at a game with no
\* override, backup or published image, the profile's live directory then
\* being untouched; for every profile it swaps and every game with exactly
\* one image to recover (by LoadExisting's search order) it stages that image
\* as the same originals/ backup the first execution left and, when the final
\* write failed in neither execution, the same final bytes under the same name.
C2_SecondRunRepublishes ==
    (prevPc = "done" /\ ~providerUp) =>
        /\ fatal = "download" =>
             /\ ExistingCandidates(overrides, gridDir[user], i) = {}
             /\ gridDir[user] = prevGridDir[user]
        /\ \A u \in Users : \A g \in GamesOf(u) :
             LET c == ExistingCandidates(overrides, prevGridDir[u], g)
             IN  (Swapped(u) /\ Cardinality(c) = 1) =>
                   \A b \in c :
                     LET orig == <<"orig", g, ImageExtOf(b)>>
                         final == <<"final", g, ImageExtOf(b)>>
                     IN  /\ gridDir[u].files[orig] = b
                         /\ prevGridDir[u].files[orig] = b
                         /\ (<<u, g>> \notin writeFailures \cup prevWriteFailures) =>
                              /\ gridDir[u].files[final] # NoImage
                              /\ gridDir[u].files[final] = prevGridDir[u].files[final]

\* The second execution completed and republished an overlaid image that it
\* recovered from the backup of the first.
C2_Witness ==
    /\ prevPc = "done"
    /\ pc = "done"
    /\ \E u \in Users : \E g \in GameIds :
         /\ games[u][g].ImageSource = "loaded"
         /\ overrides[g] = NoImage
         /\ <<u, g>> \notin writeFailures \cup prevWriteFailures
         /\ gridDir[u].files[<<"final", g, games[u][g].ImageExt>>] =
              Composite(games[u][g].CleanImageBytes)

(***************************************************************************)
(* C3: staging before destruction.                                         *)
(***************************************************************************)

\* C3: the live grid directory changes only in RemoveAll, reached when every
\* game of the profile has been processed, or in the rename; once RemoveAll
\* succeeded the next step is the rename, and until then nothing is written
\* to the staging directory.
C3_StagingBeforeDestruction ==
    [][/\ (gridDir' # gridDir /\ pc # "rename") =>
            /\ pc = "remove"
            /\ \A g \in GamesOf(user) : Processed(user, g)
            /\ newGridDir' = newGridDir
            /\ pc' \in {"rename", "exit"}
       /\ pc = "rename" =>
            \/ /\ gridDir' = [gridDir EXCEPT ![user] = newGridDir[user]]
               /\ newGridDir' = [newGridDir EXCEPT ![user] = NoDir]
            \/ /\ fsVars' = fsVars
               /\ pc' = "exit"
      ]_vars

\* The live directory is removed, the rename is pending, and the staging
\* directory holds a final image and a game was not found.
C3_Witness ==
    /\ pc = "rename"
    /\ ~gridDir[user].exists
    /\ prevGridDir[user].exists
    /\ \E g \in GameIds : <<user, g>> \in Range(notFounds)
    /\ \E n \in Names : n[1] = "final" /\ newGridDir[user].files[n] # NoImage

(***************************************************************************)
(* C4: provenance.                                                         *)
(***************************************************************************)

\* C4 as stated: a game DownloadImage found by the search is in
\* searchedGames and in neither notFounds nor failedGames.
C4_SearchedGameNowhereElse ==
    \A u \in Users : \A g \in GameIds :
      games[u][g].ImageSource = "search" =>
        /\ <<u, g>> \in Range(searchedGames)
        /\ <<u, g>> \notin Range(notFounds)
        /\ <<u, g>> \notin Range(failedGames)

\* C4 amended: the games of searchedGames are exactly those DownloadImage
\* found by the search, each once, and none of them is in notFounds; such a
\* game is also in failedGames exactly when ApplyOverlay returned an error
\* for it.
C4_SearchedGamesListed ==
    \A u \in Users : \A g \in GameIds :
      LET game == games[u][g]
      IN  /\ game.ImageSource = "search" <=> <<u, g>> \in Range(searchedGames)
          /\ game.ImageSource = "search" =>
               /\ Occurrences(searchedGames, <<u, g>>) = 1
               /\ <<u, g>> \notin Range(notFounds)
               /\ <<u, g>> \in Range(failedGames) <=>
                    (PastOverlay(u, g) /\ ApplyOverlayErr(game, g) # "")

\* A game found by the search whose overlay failed is in both lists, and
\* another one found by the search is in searchedGames only.
C4_Witness ==
    /\ \E u \in Users : \E g \in GameIds :
         /\ games[u][g].ImageSource = "search"
         /\ <<u, g>> \in Range(searchedGames)
         /\ <<u, g>> \in Range(failedGames)
    /\ \E u \in Users : \E g \in GameIds :
         /\ games[u][g].ImageSource = "search"
         /\ Handled(u, g)
         /\ <<u, g>> \notin Range(failedGames)

(***************************************************************************)
(* C5: overlay application is conservative.                                *)
(***************************************************************************)

\* C5: a game past the overlay stage whose category has no overlay has
\* OverlayImageBytes = CleanImageBytes, its final file (when the write did
\* not fail) holds the clean bytes, and nOverlaysApplied counts only games
\* of a category with an overlay whose OverlayImageBytes is the composite.
C5_OverlayConservative ==
    /\ \A u \in Users : \A g \in GameIds :
         LET game == games[u][g]
         IN  (PastOverlay(u, g) /\ Category(g) \notin overlays) =>
               /\ game.OverlayImageBytes = game.CleanImageBytes
               /\ (Handled(u, g) /\ <<u, g>> \notin writeFailures) =>
                    StagedDir(u).files[<<"final", g, game.ImageExt>>] =
                      game.CleanImageBytes
    /\ nOverlaysApplied =
         Cardinality({x \in Users \X GameIds :
                        /\ Category(x[2]) \in overlays
                        /\ games[x[1]][x[2]].OverlayImageBytes \notin
                             {NoImage, games[x[1]][x[2]].CleanImageBytes}})

\* A game without overlay was written, and another game got its overlay.
C5_Witness ==
    /\ nOverlaysApplied > 0
    /\ \E u \in Users : \E g \in GameIds :
         /\ Category(g) \notin overlays
         /\ Handled(u, g)
         /\ games[u][g].CleanImageBytes # NoImage
         /\ StagedDir(u).files[<<"final", g, games[u][g].ImageExt>>] =
              games[u][g].CleanImageBytes

(***************************************************************************)
(* C6: fatal setup and swap errors.                                        *)
(***************************************************************************)

\* C6: a failed MkdirAll, RemoveAll or Rename ends the execution in that
\* step, and once it has ended nothing happens but a new start of the
\* program, which touches no file.
C6_FatalSetupAndSwapErrors ==
    [][/\ (fatal = "none" /\ fatal' \in {"mkdir", "remove", "rename"}) =>
            /\ pc' = "exit"
            /\ user' = user
            /\ i' = i
       /\ pc = "exit" =>
            /\ run' = run + 1
            /\ pc' = "load"
            /\ fsVars' = fsVars
      ]_vars

\* The execution ended in the swap or the setup of a profile that is not the
\* last one.
C6_Witness ==
    /\ pc = "exit"
    /\ fatal \in {"mkdir", "remove", "rename"}
    /\ user < NUsers

(***************************************************************************)
(* C7: recoverable per-game errors.                                        *)
(***************************************************************************)

\* C7 as stated: a game whose final write failed is in one of the summary
\* lists.
C7_WriteFailureInSummary ==
    \A x \in writeFailures :
      x \in Range(notFounds) \cup Range(searchedGames) \cup Range(failedGames)

\* C7 amended: a game left without image is appended to notFounds and the
\* loop goes on; a game whose ApplyOverlay fails is appended to failedGames,
\* with its message, and goes on to the backup; a failed final write is
\* only printed: no summary list changes, and the loop goes on.
C7_RecoverableErrorsRecorded ==
    [][/\ (pc = "acquire" /\ pc' \in {"acquire", "remove"}) =>
            /\ games'[user][i].ImageSource = ""
            /\ notFounds' = Append(notFounds, <<user, i>>)
            /\ fatal' = "none"
       /\ (pc = "overlay" /\ ApplyOverlayErr(games[user][i], i) # "") =>
            /\ failedGames' = Append(failedGames, <<user, i>>)
            /\ Len(errorMessages') = Len(failedGames')
            /\ pc' = "backup"
       /\ (writeFailures' # writeFailures /\ run' = run) =>
            /\ writeFailures' = writeFailures \cup {<<user, i>>}
            /\ summaryVars' = summaryVars
            /\ pc' \in {"acquire", "remove"}
            /\ fatal' = "none"
      ]_vars

\* An execution that had the three kinds of error printed its summary.
C7_Witness ==
    /\ pc = "done"
    /\ notFounds # <<>>
    /\ failedGames # <<>>
    /\ writeFailures # {}

(***************************************************************************)
(* C8: a failed final write.                                               *)
(***************************************************************************)

\* C8: the republished grid directory of a profile holds no <gameID><ext>
\* file of a game whose final write failed in this execution.
C8_FailedWriteNotPublished ==
    \A u \in Users : \A g \in GameIds :
      (Swapped(u) /\ <<u, g>> \in writeFailures) =>
        \A e \in Exts : gridDir[u].files[<<"final", g, e>>] = NoImage

(***************************************************************************)
(* C9: transport errors.                                                   *)
(***************************************************************************)

\* C9: DownloadImage is called at most once per game and execution; when it
\* returned an error the execution has ended at that game: no later game and
\* no later profile was touched, and the live directory of the profile was
\* neither removed nor replaced.
C9_TransportErrorFatal ==
    /\ \A u \in Users : \A g \in GameIds : downloadCalls[u][g] <= 1
    /\ fatal = "download" =>
         /\ pc = "exit"
         /\ downloadCalls[user][i] = 1
         /\ games[user][i].ImageSource = ""
         /\ newGridDir[user].exists
         /\ \A u \in Users : u >= user => gridDir[u] = prevGridDir[u]
         /\ \A g \in GameIds :
              g > i => /\ downloadCalls[user][g] = 0
                       /\ games[user][g].OverlayImageBytes = NoImage
         /\ \A u \in Users :
              u > user => /\ games[u] = NoGames[u]
                          /\ downloadCalls[u] = NoCalls[u]

\* DownloadImage failed in a profile that is not the last.
C9_Witness ==
    /\ fatal = "download"
    /\ user < NUsers

(***************************************************************************)
(* C10: ImageExt is checked before any file is written.                    *)
(***************************************************************************)

\* C10: no directory holds a file of a game, backup or final image, that
\* was written with an empty ImageExt.
C10_NoFileWithoutExt ==
    \A u \in Users : \A g \in GameIds : \A k \in Kinds :
      /\ newGridDir[u].files[<<k, g, "">>] = NoImage
      /\ gridDir[u].files[<<k, g, "">>] = NoImage


(***************************************************************************)
(* C11: the publication invariant.                                         *)
(***************************************************************************)

\* C11: when the final write of a game is reached the game has an image
\* (ImageSource and CleanImageBytes are set) and OverlayImageBytes is
\* present: the composite where ApplyOverlay set it, the clean bytes where
\* it did not (no overlay for the category, or an error).
C11_PublicationInvariant ==
    pc = "publish" =>
      LET game == games[user][i]
      IN  /\ game.ImageSource # ""
          /\ game.CleanImageBytes # NoImage
          /\ game.OverlayImageBytes # NoImage
          /\ game.OverlayImageBytes =
               IF Category(i) \in overlays /\ ApplyOverlayErr(game, i) = ""
               THEN Composite(game.CleanImageBytes)
               ELSE game.CleanImageBytes

\* The write is reached for a game whose ApplyOverlay returned an error.
C11_Witness ==
    /\ pc = "publish"
    /\ games[user][i].ImageExt # ""
    /\ ApplyOverlayErr(games[user][i], i) # ""
    /\ games[user][i].OverlayImageBytes = games[user][i].CleanImageBytes

(***************************************************************************)
(* C12: acquisition is skipped for loaded games, not-found games are       *)
(* skipped entirely.                                                       *)
(***************************************************************************)

\* C12: at line 102 DownloadImage is called, once, exactly when the game's
\* ImageSource is empty, and nowhere else; a game still without image after
\* it is appended to notFounds and the loop goes to the next game: it is not
\* counted, no overlay is applied, no file is written; the overlay, backup
\* and write stages are entered only by games with an image.
C12_AcquisitionAndSkip ==
    [][/\ pc = "acquire" =>
            /\ downloadCalls' # downloadCalls <=> games[user][i].ImageSource = ""
            /\ downloadCalls' # downloadCalls =>
                 downloadCalls' = [downloadCalls EXCEPT ![user][i] = @ + 1]
       /\ (pc # "acquire" /\ run' = run) => downloadCalls' = downloadCalls
       /\ (pc = "acquire" /\ fatal' = "none" /\ games'[user][i].ImageSource = "") =>
            /\ notFounds' = Append(notFounds, <<user, i>>)
            /\ nDownloaded' = nDownloaded
            /\ nOverlaysApplied' = nOverlaysApplied
            /\ failedGames' = failedGames
            /\ games'[user][i].OverlayImageBytes = NoImage
            /\ fsVars' = fsVars
            /\ IF i < NumGames(user) THEN pc' = "acquire" /\ i' = i + 1
                                     ELSE pc' = "remove"
       /\ pc' \in {"overlay", "backup", "publish"} =>
            games'[user'][i'].ImageSource # ""
      ]_vars

\* An execution ended in which a loaded game was not downloaded and a game
\* that was not found was skipped before the last game of its profile.
C12_Witness ==
    /\ pc = "done"
    /\ \E u \in Users : \E g \in GameIds :
         games[u][g].ImageSource = "loaded" /\ downloadCalls[u][g] = 0
    /\ \E u \in Users : \E g \in GameIds :
         /\ g < NumGames(u)
         /\ <<u, g>> \in Range(notFounds)
         /\ downloadCalls[u][g] = 1


(***************************************************************************)
(* C13: the staging directory is freshly built.                            *)
(***************************************************************************)

\* C13: after the swap every file of the live grid directory was written by
\* this execution: it is the backup or the final image of a game of the
\* profile that has an image, under the game's extension and with the
\* game's bytes.
C13_OnlyFilesOfThisRun ==
    \A u \in Users : \A n \in Names :
      (Swapped(u) /\ gridDir[u].files[n] # NoImage) =>
        LET game == games[u][n[2]]
        IN  /\ game.ImageSource # ""
            /\ n[3] = game.ImageExt
            /\ n[1] = "orig" => gridDir[u].files[n] = game.CleanImageBytes
            /\ n[1] = "final" =>
                 /\ gridDir[u].files[n] = game.OverlayImageBytes
                 /\ <<u, n[2]>> \notin writeFailures

(***************************************************************************)
(* C14: no image is lost across the swap window.                           *)
(***************************************************************************)

\* C14: whenever the live grid directory of a profile does not exist (it was
\* removed and the rename has not happened, in this execution or in the one
\* before) the staging directory exists and holds the originals/ backup of
\* every game of the profile that has an image; a failed BackupGame ends the
\* execution with the live directory untouched.
C14_NoImageLostInSwapWindow ==
    /\ \A u \in Users :
         ~gridDir[u].exists =>
           /\ newGridDir[u].exists
           /\ \A g \in GameIds :
                games[u][g].ImageSource # "" =>
                  newGridDir[u].files[<<"orig", g, games[u][g].ImageExt>>] =
                    games[u][g].CleanImageBytes
    /\ fatal = "backup" =>
         /\ pc = "exit"
         /\ gridDir[user] = prevGridDir[user]

\* The live directory is removed, the rename is pending, and the profile
\* has a downloaded and a loaded game.
C14_Witness ==
    /\ pc = "rename"
    /\ ~gridDir[user].exists
    /\ \E g \in GameIds : games[user][g].ImageSource = "loaded"
    /\ \E g \in GameIds : games[user][g].ImageSource \in {"official", "search"}

(***************************************************************************)
(* C15: a fatal error while the games of a profile are processed.          *)
(***************************************************************************)

\* C15: after a DownloadImage error, a BackupGame error or an empty ImageExt
\* the execution has ended, the live directory of the profile is what it was
\* at the start, the staging directory is on disk with the backups of the
\* games handled so far, and each earlier profile has its new grid directory
\* in place.
C15_FatalWhileProcessing ==
    fatal \in {"download", "backup", "format"} =>
      /\ pc = "exit"
      /\ gridDir[user] = prevGridDir[user]
      /\ newGridDir[user].exists
      /\ \A g \in GameIds :
           (g < i /\ games[user][g].ImageSource # "") =>
             newGridDir[user].files[<<"orig", g, games[user][g].ImageExt>>] =
               games[user][g].CleanImageBytes
      /\ \A u \in Users :
           u < user =>
             /\ gridDir[u].exists
             /\ ~newGridDir[u].exists
             /\ \A g \in GameIds :
                  games[u][g].ImageSource # "" =>
                    gridDir[u].files[<<"orig", g, games[u][g].ImageExt>>] =
                      games[u][g].CleanImageBytes

\* The execution ended at the second game of the second profile; the first
\* game of that profile is staged and the first profile has been swapped.
C15_Witness ==
    /\ fatal \in {"download", "backup", "format"}
    /\ user > 1
    /\ i > 1
    /\ games[user][1].ImageSource # ""
    /\ \E g \in GameIds : games[1][g].ImageSource # ""


(***************************************************************************)
(* C16: the summary bookkeeping.                                           *)
(***************************************************************************)

\* The games DownloadImage was called for and that have an image since.
Downloaded ==
    {x \in Users \X GameIds :
       /\ downloadCalls[x[1]][x[2]] > 0
       /\ games[x[1]][x[2]].ImageSource # ""}

\* C16: nDownloaded is the number of downloaded games; searchedGames holds
\* only downloaded games; notFounds shares no game with searchedGames or
\* failedGames; a game loaded by LoadExisting is in neither notFounds nor
\* searchedGames; no list holds a game twice.
C16_SummaryBookkeeping ==
    /\ nDownloaded = Cardinality(Downloaded)
    /\ Range(searchedGames) \subseteq Downloaded
    /\ Range(notFounds) \cap (Range(searchedGames) \cup Range(failedGames)) = {}
    /\ \A u \in Users : \A g \in GameIds :
         /\ games[u][g].ImageSource = "loaded" =>
              <<u, g>> \notin Range(notFounds) \cup Range(searchedGames)
         /\ Occurrences(notFounds, <<u, g>>) <= 1
         /\ Occurrences(searchedGames, <<u, g>>) <= 1
         /\ Occurrences(failedGames, <<u, g>>) <= 1

\* An execution ended with a game not found, a game found by the search
\* whose overlay failed, and a game from the catalog.
C16_Witness ==
    /\ pc = "done"
    /\ notFounds # <<>>
    /\ searchedGames # <<>>
    /\ failedGames # <<>>
    /\ nDownloaded > Len(searchedGames)

(***************************************************************************)
(* C17: failedGames and errorMessages.                                     *)
(***************************************************************************)

\* C17: failedGames and errorMessages have the same length, and the message
\* at an index is the error ApplyOverlay returned for the game at that index.
C17_MessagesPaired ==
    /\ Len(errorMessages) = Len(failedGames)
    /\ \A k \in DOMAIN failedGames :
         LET u == failedGames[k][1]
             g == failedGames[k][2]
         IN  /\ ApplyOverlayErr(games[u][g], g) # ""
             /\ k \in DOMAIN errorMessages
             /\ errorMessages[k] =
                  <<ApplyOverlayErr(games[u][g], g), games[u][g].CleanImageBytes>>

\* The overlay failed for two games with different images.
C17_Witness ==
    /\ Len(failedGames) >= 2
    /\ errorMessages[1] # errorMessages[2]

====
